---- MODULE Spec2Model ----
(***************************************************************************)
(* A model of elftools/elf/wasmfile.py: the WebAssembly module reader      *)
(* (WasmFile), its LEB128 reader and its zlib debug-section decompressor.  *)
(*                                                                         *)
(* Bytes are integers 0..255, byte strings are sequences of bytes, and a   *)
(* Python text string is the sequence of its character codes.  None is     *)
(* the record [tag |-> "None"].  A stream is a byte string plus a          *)
(* position (the value of tell()).                                         *)
(*                                                                         *)
(* Three specifications:                                                   *)
(*   Spec      a WasmFile is constructed from a file and one of its        *)
(*             public operations is called;                                *)
(*   SpecLEB   read_ULEB128 runs on one stream, one loop iteration a step; *)
(*   SpecZlib  _decompress_dwarf_section is applied to one descriptor.     *)
(***************************************************************************)
EXTENDS Integers, Sequences, FiniteSets, TLC

\* ------------------------------------------------------------- bounds --
\* The longest run of chunks in an input file.
MaxChunks == 2
\* read_ULEB128 is run on every n in 0..MaxSmallN and on LEBBoundaryValues.
MaxSmallN == 300
\* The longest payload handed to the compressor.
MaxPayloadLen == 3

\* ------------------------------------------------------- byte strings --
None == [tag |-> "None"]

Min(a, b) == IF a < b THEN a ELSE b

\* stream.read(k) at position pos: at most k bytes, fewer at end-of-stream.
StreamRead(bytes, pos, k) == SubSeq(bytes, pos + 1, Min(pos + k, Len(bytes)))

\* The position after stream.read(k).
StreamTell(bytes, pos, k) == Min(pos + k, Len(bytes))

RECURSIVE Concat(_)
Concat(seqs) == IF seqs = <<>> THEN <<>> ELSE Head(seqs) \o Concat(Tail(seqs))

StartsWith(s, prefix) ==
    Len(s) >= Len(prefix) /\ SubSeq(s, 1, Len(prefix)) = prefix

Contains(s, b) == \E i \in 1..Len(s) : s[i] = b

\* ----------------------------------------------------- section names --
\* The character codes of the names the source spells out.
debug_info      == <<46, 100, 101, 98, 117, 103, 95, 105, 110, 102, 111>>
debug_aranges   == <<46, 100, 101, 98, 117, 103, 95, 97, 114, 97, 110, 103, 101, 115>>
debug_abbrev    == <<46, 100, 101, 98, 117, 103, 95, 97, 98, 98, 114, 101, 118>>
debug_str       == <<46, 100, 101, 98, 117, 103, 95, 115, 116, 114>>
debug_line      == <<46, 100, 101, 98, 117, 103, 95, 108, 105, 110, 101>>
debug_frame     == <<46, 100, 101, 98, 117, 103, 95, 102, 114, 97, 109, 101>>
debug_loc       == <<46, 100, 101, 98, 117, 103, 95, 108, 111, 99>>
debug_ranges    == <<46, 100, 101, 98, 117, 103, 95, 114, 97, 110, 103, 101, 115>>
debug_pubtypes  == <<46, 100, 101, 98, 117, 103, 95, 112, 117, 98, 116, 121, 112, 101, 115>>
debug_pubnames  == <<46, 100, 101, 98, 117, 103, 95, 112, 117, 98, 110, 97, 109, 101, 115>>
eh_frame        == <<46, 101, 104, 95, 102, 114, 97, 109, 101>>
zdebug_info     == <<46, 122, 100, 101, 98, 117, 103, 95, 105, 110, 102, 111>>
\* '.z', the prefix of a compressed name.
dot_z           == <<46, 122>>
\* b'ZLIB'
ZLIB_TAG        == <<90, 76, 73, 66>>
\* b'\x00asm'
WASM_MAGIC      == <<0, 97, 115, 109>>

\* ------------------------------------------------------- read_ULEB128 --
\* One pass through the body of read_ULEB128's loop.  A loop state is
\* [pc, ret, shifts, pos]; ord(stream.read(1)) raises TypeError at
\* end-of-stream, where read(1) returns b''.
read_ULEB128_shift8(stream, st) ==
    IF st.pos >= Len(stream)
    THEN [st EXCEPT !.pc = "raised"]
    ELSE LET curr == stream[st.pos + 1]
             ret  == st.ret + (curr % 128) * 2 ^ st.shifts
         IN  IF curr < 128
             THEN [pc |-> "returned", ret |-> ret, shifts |-> st.shifts,
                   pos |-> st.pos + 1]
             ELSE [pc |-> "run", ret |-> ret, shifts |-> st.shifts + 8,
                   pos |-> st.pos + 1]

read_ULEB128_iter(stream, st) ==
    IF st.pos >= Len(stream)
    THEN [st EXCEPT !.pc = "raised"]
    ELSE LET curr == stream[st.pos + 1]
             \* ret += (curr & 127) << shifts
             ret  == st.ret + (curr % 128) * 2 ^ st.shifts
         IN  \* if not (curr & 128): return ret
             IF curr < 128
             THEN [pc |-> "returned", ret |-> ret, shifts |-> st.shifts,
                   pos |-> st.pos + 1]
             ELSE [pc |-> "run", ret |-> ret, shifts |-> st.shifts + 7,
                   pos |-> st.pos + 1]

RECURSIVE read_ULEB128_loop(_, _)
read_ULEB128_loop(stream, st) ==
    IF st.pc = "run" THEN read_ULEB128_loop(stream, read_ULEB128_iter(stream, st))
    ELSE st

\* read_ULEB128(stream) with the stream at pos: the final loop state, whose
\* pc is "returned" (ret is the value, pos the new position) or "raised".
read_ULEB128(stream, pos) ==
    read_ULEB128_loop(stream, [pc |-> "run", ret |-> 0, shifts |-> 0, pos |-> pos])

\* The ULEB128 encoding of n: 7 bits a byte, low bits first, the high bit
\* set on every byte but the last.
RECURSIVE ULEB128_encode(_)
ULEB128_encode(n) ==
    IF n < 128 THEN <<n>>
    ELSE <<128 + (n % 128)>> \o ULEB128_encode(n \div 128)

\* --------------------------------------------------------------- zlib --
\* resource.getpagesize() on the usual build.
PAGESIZE == 4096

\* struct.unpack('>Q', b)[0]: the big-endian value of a byte string.
RECURSIVE BigEndian(_, _)
BigEndian(bytes, acc) ==
    IF bytes = <<>> THEN acc
    ELSE BigEndian(Tail(bytes), acc * 256 + Head(bytes))

\* Adler-32 as the pair <<a, b>>: a is 1 plus the sum of the bytes, b the
\* sum of the successive values of a, both modulo 65521.
RECURSIVE Adler32(_, _, _)
Adler32(data, a, b) ==
    IF data = <<>> THEN <<a, b>>
    ELSE LET a2 == (a + Head(data)) % 65521
         IN  Adler32(Tail(data), a2, (b + a2) % 65521)

\* The four checksum bytes that end a zlib stream: b then a, big-endian.
AdlerBytes(data) ==
    LET ab == Adler32(data, 1, 0)
    IN  <<ab[2] \div 256, ab[2] % 256, ab[1] \div 256, ab[1] % 256>>

\* zlib.compress(payload, 0): the two header bytes, one final stored block
\* (LEN and its complement, little-endian, then the bytes), the checksum.
Deflate(payload) ==
    LET n == Len(payload)
    IN  <<120, 1>> \o <<1>> \o <<n % 256, n \div 256>>
        \o <<(65535 - n) % 256, (65535 - n) \div 256>>
        \o payload \o AdlerBytes(payload)

\* The envelope of a compressed debug section: the tag, the declared size
\* as 8 big-endian bytes (sizes here stay below 256), the zlib stream.
Envelope(tag, declared, zstream) ==
    tag \o <<0, 0, 0, 0, 0, 0, 0, declared>> \o zstream

\* The end of a zlib stream at position p: the checksum bytes are compared
\* once all four are there; bytes after them are left unused.
InflateTrailer(z, p, out) ==
    IF p + 4 > Len(z) THEN [err |-> "", out |-> out]
    ELSE IF SubSeq(z, p + 1, p + 4) = AdlerBytes(out)
         THEN [err |-> "", out |-> out]
         ELSE [err |-> "zlib.error", out |-> out]

\* The blocks of a deflate stream from position p.  Stored blocks
\* (BTYPE 0) are decoded; BTYPE 3 is invalid; Huffman-coded blocks are
\* outside this model and no input of the model holds one.  Input that
\* ends early is no error to a decompressobj: it yields what it has.
RECURSIVE InflateBlocks(_, _, _)
InflateBlocks(z, p, out) ==
    IF p >= Len(z) THEN [err |-> "", out |-> out]
    ELSE LET bfinal == z[p + 1] % 2
             btype  == (z[p + 1] \div 2) % 4
         IN  IF btype = 3 THEN [err |-> "zlib.error", out |-> out]
             ELSE IF btype # 0 THEN [err |-> "unmodelled", out |-> out]
             ELSE IF p + 5 > Len(z) THEN [err |-> "", out |-> out]
             ELSE LET len  == z[p + 2] + 256 * z[p + 3]
                      nlen == z[p + 4] + 256 * z[p + 5]
                      take == Min(len, Len(z) - (p + 5))
                      out2 == out \o SubSeq(z, p + 6, p + 5 + take)
                  IN  IF len + nlen # 65535
                      THEN [err |-> "zlib.error", out |-> out]
                      ELSE IF take < len THEN [err |-> "", out |-> out2]
                      ELSE IF bfinal = 1
                           THEN InflateTrailer(z, p + 5 + len, out2)
                           ELSE InflateBlocks(z, p + 5 + len, out2)

\* decompressobj().decompress over all of z, then flush(): the bytes
\* written to the output, or zlib.error.
Inflate(z) ==
    IF Len(z) < 2 THEN [err |-> "", out |-> <<>>]
    ELSE LET cmf == z[1]
             flg == z[2]
         IN  IF \/ cmf % 16 # 8
                \/ cmf \div 16 > 7
                \/ (cmf * 256 + flg) % 31 # 0
                \/ (flg \div 32) % 2 # 0
             THEN [err |-> "zlib.error", out |-> <<>>]
             ELSE InflateBlocks(z, 2, <<>>)

\* The read loop of _decompress_dwarf_section: chunks of PAGESIZE bytes
\* from position pos until read() returns an empty chunk, in order.
RECURSIVE ReadChunks(_, _)
ReadChunks(stream, pos) ==
    LET chunk == StreamRead(stream, pos, PAGESIZE)
    IN  IF chunk = <<>> THEN <<>>
        ELSE <<chunk>> \o ReadChunks(stream, StreamTell(stream, pos, PAGESIZE))

DebugSectionDescriptor(stream, name, global_offset, size, address) ==
    [tag |-> "DebugSectionDescriptor", stream |-> stream, name |-> name,
     global_offset |-> global_offset, size |-> size, address |-> address]

Raised(kind) == [err |-> kind, ret |-> None]

Returned(value) == [err |-> "", ret |-> value]

\* _decompress_dwarf_section without its last assertion.
_decompress_dwarf_section_unchecked(section) ==
    IF ~(section.size > 12) THEN Raised("AssertionError")
    ELSE IF StreamRead(section.stream, 0, 4) # ZLIB_TAG
    THEN Raised("AssertionError")
    ELSE IF Len(StreamRead(section.stream, 4, 8)) # 8
    THEN Raised("struct.error")
    ELSE LET inflated == Inflate(Concat(ReadChunks(section.stream, 12)))
         IN  IF inflated.err # "" THEN Raised(inflated.err)
             ELSE Returned([section EXCEPT !.stream = inflated.out,
                                           !.size = Len(inflated.out)])

\* _decompress_dwarf_section(section): [err, ret], err the exception raised
\* ("" for none) and ret the descriptor returned.
_decompress_dwarf_section(section) ==
    \* assert section.size > 12
    IF ~(section.size > 12) THEN Raised("AssertionError")
    \* assert compression_type == b'ZLIB'
    ELSE IF StreamRead(section.stream, 0, 4) # ZLIB_TAG
    THEN Raised("AssertionError")
    ELSE IF Len(StreamRead(section.stream, 4, 8)) # 8
    THEN Raised("struct.error")
    ELSE LET uncompressed_size ==
                 BigEndian(StreamRead(section.stream, 4, 8), 0)
             inflated == Inflate(Concat(ReadChunks(section.stream, 12)))
             size == Len(inflated.out)
         IN  IF inflated.err # "" THEN Raised(inflated.err)
             \* assert uncompressed_size == size
             ELSE IF uncompressed_size # size THEN Raised("AssertionError")
             ELSE Returned([section EXCEPT !.stream = inflated.out,
                                           !.size = size])

\* -------------------------------------------------------- WasmSection --
WasmSection_User == 0
WasmSection_Type == 1

\* WasmSection(name, data): data() returns data; header holds its length.
WasmSection(name, data) ==
    [tag |-> "WasmSection", name |-> name, data |-> data,
     header |-> [sh_size |-> Len(data), sh_offset |-> 0, sh_addr |-> 0]]

\* ----------------------------------------------------- read_WasmString --
HexDigit(d) == IF d < 10 THEN 48 + d ELSE 87 + d

\* The characters repr() writes for one byte inside the quote character q.
ReprByte(c, q) ==
    IF c = 92 THEN <<92, 92>>
    ELSE IF c = 9 THEN <<92, 116>>
    ELSE IF c = 10 THEN <<92, 110>>
    ELSE IF c = 13 THEN <<92, 114>>
    ELSE IF c = q THEN <<92, c>>
    ELSE IF c < 32 \/ c >= 127
         THEN <<92, 120, HexDigit(c \div 16), HexDigit(c % 16)>>
    ELSE <<c>>

\* repr(b) of a bytes object: b'...', or b"..." when b holds ' and no ".
ReprBytes(b) ==
    LET q == IF Contains(b, 39) /\ ~Contains(b, 34) THEN 34 ELSE 39
    IN  <<98, q>> \o Concat([i \in 1..Len(b) |-> ReprByte(b[i], q)]) \o <<q>>

\* str(b) of the bytes b that stream.read returned.  On Python 2 bytes is
\* str and str(b) is b; on Python 3 str(b) is repr(b).  The package runs
\* on both (common/py3compat), so the interpreter is an input: isPy3.
PyStr(isPy3, b) == IF isPy3 THEN ReprBytes(b) ELSE b

\* read_WasmString(stream) at pos: [pc, ret, pos], pc "returned" or
\* "raised" as for read_ULEB128.
read_WasmString(isPy3, stream, pos) ==
    LET size == read_ULEB128(stream, pos)
    IN  IF size.pc = "raised" THEN [pc |-> "raised", ret |-> <<>>, pos |-> size.pos]
        ELSE [pc  |-> "returned",
              ret |-> PyStr(isPy3, StreamRead(stream, size.pos, size.ret)),
              pos |-> StreamTell(stream, size.pos, size.ret)]

\* ------------------------------------------------- the module format --
\* A chunk of a module: the kind and the payload size as ULEB128, then the
\* payload.
Chunk(code, payload) ==
    ULEB128_encode(code) \o ULEB128_encode(Len(payload)) \o payload

\* A custom chunk: kind 0, and a payload made of the length-prefixed name
\* and the section's bytes.
CustomChunk(name, data) ==
    Chunk(WasmSection_User, ULEB128_encode(Len(name)) \o name \o data)

\* ------------------------------------------------------------ WasmFile --
\* The debug-section names of get_dwarf_info, in its order.
section_names_canonical ==
    <<debug_info, debug_aranges, debug_abbrev, debug_str, debug_line,
      debug_frame, debug_loc, debug_ranges, debug_pubtypes, debug_pubnames>>

\* self._section_name_map.setdefault(code, []).append(payload)
AppendPayload(map, code, payload) ==
    IF code \in DOMAIN map
    THEN [map EXCEPT ![code] = Append(@, payload)]
    ELSE (code :> <<payload>>) @@ map

\* self._custom_section_name_map[name] = section, keeping the first entry.
RegisterCustom_first(map, name, section) ==
    IF name \in DOMAIN map THEN map ELSE (name :> section) @@ map

\* self._custom_section_name_map[name] = section
RegisterCustom(map, name, section) == (name :> section) @@ map

\* One pass of the loop over the user sections: the name is read from a
\* stream over the payload, the rest of the payload is the section's data.
\* [pc, name, section].
ParseCustom(isPy3, user_section) ==
    LET total == Len(user_section)
        name  == read_WasmString(isPy3, user_section, 0)
    IN  IF name.pc = "raised"
        THEN [pc |-> "raised", name |-> <<>>, section |-> None]
        ELSE [pc |-> "returned", name |-> name.ret,
              section |-> WasmSection(name.ret,
                              StreamRead(user_section, name.pos,
                                         total - name.pos))]

\* get_section_by_name(name): dict.get on the custom-section map.
get_section_by_name(custom_map, name) ==
    IF name \in DOMAIN custom_map THEN custom_map[name] ELSE None

\* Python truth of a lookup: a WasmSection defines neither __bool__ nor
\* __len__, so it is true; None is false.
Truthy(v) == v # None

\* has_dwarf_info without the '.eh_frame' operand.
has_dwarf_info_two(custom_map) ==
    LET a == get_section_by_name(custom_map, debug_info)
    IN  IF Truthy(a) THEN a ELSE get_section_by_name(custom_map, zdebug_info)

\* has_dwarf_info(): a or b or c is the first true operand, else the last.
has_dwarf_info(custom_map) ==
    LET a == get_section_by_name(custom_map, debug_info)
        b == get_section_by_name(custom_map, zdebug_info)
        c == get_section_by_name(custom_map, eh_frame)
    IN  IF Truthy(a) THEN a ELSE IF Truthy(b) THEN b ELSE c

\* The names get_dwarf_info goes through: with compressed, every name x of
\* the list becomes '.z' + x[1:]; '.eh_frame' is appended afterwards.
ResolveSectionNames(compressed) ==
    (IF compressed
     THEN [i \in 1..Len(section_names_canonical) |->
              dot_z \o Tail(section_names_canonical[i])]
     ELSE section_names_canonical)
    \o <<eh_frame>>

\* The test before decompression, without the name test.
NeedsDecompression_any(compressed, secname) == compressed

\* if compressed and secname.startswith('.z')
NeedsDecompression(compressed, secname) ==
    compressed /\ StartsWith(secname, dot_z)

\* _read_dwarf_section(section, relocate_dwarf_sections) with
\* relocate_dwarf_sections False, the only value passed here: the section's
\* data written to a new stream, and the header fields.
_read_dwarf_section(section) ==
    DebugSectionDescriptor(section.data, section.name,
                           section.header.sh_offset,
                           section.header.sh_size,
                           section.header.sh_addr)

\* DwarfConfig(little_endian=True, default_address_size=32 // 8,
\*             machine_arch='wasm32')
DwarfConfig ==
    [little_endian |-> TRUE, default_address_size |-> 32 \div 8,
     machine_arch |-> "wasm32"]

\* The DWARFInfo built on return: its keyword arguments.
DWARFInfo(debug_sections, names) ==
    [config             |-> DwarfConfig,
     debug_info_sec     |-> debug_sections[names[1]],
     debug_aranges_sec  |-> debug_sections[names[2]],
     debug_abbrev_sec   |-> debug_sections[names[3]],
     debug_str_sec      |-> debug_sections[names[4]],
     debug_line_sec     |-> debug_sections[names[5]],
     debug_frame_sec    |-> debug_sections[names[6]],
     debug_loc_sec      |-> debug_sections[names[7]],
     debug_ranges_sec   |-> debug_sections[names[8]],
     debug_pubtypes_sec |-> debug_sections[names[9]],
     debug_pubnames_sec |-> debug_sections[names[10]],
     eh_frame_sec       |-> debug_sections[names[11]]]

\* self[name], that is self.header[name]: AttributeError when the object
\* has no attribute 'header'.
GetItem(attributes, name) ==
    IF "header" \in DOMAIN attributes
    THEN Returned(attributes["header"][name])
    ELSE Raised("AttributeError")

\* The offsets address_offsets yields over the segments segs[i..]: one for
\* each PT_LOAD segment whose file range holds [start, end).
RECURSIVE YieldOffsets(_, _, _, _)
YieldOffsets(segs, i, start, end) ==
    IF i > Len(segs) THEN <<>>
    ELSE LET seg == segs[i]
         IN  (IF seg.p_type # "PT_LOAD" THEN <<>>
              ELSE IF start >= seg.p_vaddr /\ end <= seg.p_vaddr + seg.p_filesz
                   THEN <<start - seg.p_vaddr + seg.p_offset>>
                   ELSE <<>>)
             \o YieldOffsets(segs, i + 1, start, end)

\* list(address_offsets(start, size)): [err, ret].  iter_segments asks
\* num_segments() for self['e_phnum'] before the first segment is read;
\* segs is what the segment headers of the file would parse to.
address_offsets(attributes, segs, start, size) ==
    LET end == start + size
        num_segments == GetItem(attributes, "e_phnum")
    IN  IF num_segments.err # "" THEN [err |-> num_segments.err, ret |-> <<>>]
        ELSE [err |-> "",
              ret |-> YieldOffsets(SubSeq(segs, 1, num_segments.ret), 1,
                                   start, end)]

\* ---------------------------------------------------------- variables --
VARIABLES
    isPy3,   \* the interpreter is Python 3 (else Python 2)
    input,   \* how the file was made: [magic, chunks, tail]
    stream,  \* the bytes of the file
    pos,     \* stream.tell()
    pc,      \* where the program is
    err,     \* the exception that ended the constructor or the call
    self,    \* the attributes assigned on the WasmFile, by name
    walked,  \* what each pass of the section walk read: [code, size, payload]
    uidx,    \* the index of the user section being registered
    result,  \* what has_dwarf_info / get_dwarf_info returned
    dw,      \* the locals of get_dwarf_info
    addr,    \* the call of address_offsets and what it yielded
    leb,     \* SpecLEB: [kind, n, stream, st], st the loop state
    zs       \* SpecZlib: [pc, variant, payload, declared, section, err, ret]

fileVars == <<isPy3, input, stream, pos, pc, err, self, walked, uidx,
              result, dw, addr>>

vars == <<isPy3, input, stream, pos, pc, err, self, walked, uidx, result,
          dw, addr, leb, zs>>

LEBIdle == [kind |-> "idle", n |-> 0, stream |-> <<>>,
            st |-> [pc |-> "idle", ret |-> 0, shifts |-> 0, pos |-> 0]]

ZlibIdle == [pc |-> "idle", variant |-> "idle", payload |-> <<>>,
             declared |-> 0, section |-> None, err |-> "", ret |-> None]

RECURSIVE SeqsUpTo(_, _)
SeqsUpTo(S, n) ==
    IF n = 0 THEN {<<>>}
    ELSE LET shorter == SeqsUpTo(S, n - 1)
         IN  shorter \cup {Append(s, x) : s \in shorter, x \in S}

\* --------------------------------------------------------------- Spec --
zdebug_str == <<46, 122, 100, 101, 98, 117, 103, 95, 115, 116, 114>>
\* 'name', a custom section that holds no debugging information.
other_name == <<110, 97, 109, 101>>
\* b'\x7fELF'
ELF_MAGIC == <<127, 69, 76, 70>>
WASM_VERSION == <<1, 0, 0, 0>>

CustomInput(name, data) ==
    [code |-> WasmSection_User, name |-> name, data |-> data]

\* The chunks files are made of.  The compressed ones hold a good envelope,
\* an envelope declaring one byte too many, an envelope with another tag,
\* and a section too short to hold an envelope.
ChunkPool ==
    { CustomInput(debug_info, <<1, 2>>),
      CustomInput(debug_info, <<3>>),
      CustomInput(zdebug_info, Envelope(ZLIB_TAG, 2, Deflate(<<7, 8>>))),
      CustomInput(zdebug_info, Envelope(ZLIB_TAG, 3, Deflate(<<7, 8>>))),
      CustomInput(eh_frame, <<5>>),
      CustomInput(debug_str, <<6, 6>>),
      CustomInput(zdebug_str, Envelope(ZLIB_TAG, 1, Deflate(<<4>>))),
      CustomInput(zdebug_str, Envelope(<<90, 76, 73, 88>>, 1, Deflate(<<4>>))),
      CustomInput(zdebug_str, <<1>>),
      CustomInput(other_name, <<9>>),
      [code |-> WasmSection_Type, name |-> <<>>, data |-> <<1, 0>>] }

ChunkBytes(c) ==
    IF c.code = WasmSection_User THEN CustomChunk(c.name, c.data)
    ELSE Chunk(c.code, c.data)

\* What may follow the complete chunks of a file:
\*   none           nothing
\*   short_payload  a chunk declaring 5 payload bytes, 2 of them there
\*   short_custom   a custom chunk '.eh_frame' declaring 3 bytes more than
\*                  the file holds
\*   cut_header     a kind byte and the end of the file
\*   empty_custom   a complete custom chunk with an empty payload
\*   long_name      a complete custom chunk whose name length (5) exceeds
\*                  the 2 bytes that follow it
Tails ==
    {"none", "short_payload", "short_custom", "cut_header", "empty_custom",
     "long_name"}

TailBytes(tail) ==
    CASE tail = "none"          -> <<>>
      [] tail = "short_payload" -> <<WasmSection_Type, 5, 7, 7>>
      [] tail = "short_custom"  ->
             <<WasmSection_User, Len(eh_frame) + 1 + 2 + 3>>
             \o ULEB128_encode(Len(eh_frame)) \o eh_frame \o <<5, 5>>
      [] tail = "cut_header"    -> <<WasmSection_Type>>
      [] tail = "empty_custom"  -> Chunk(WasmSection_User, <<>>)
      [] tail = "long_name"     -> Chunk(WasmSection_User, <<5, 97, 98>>)

FileBytes(in) ==
    in.magic \o WASM_VERSION
    \o Concat([i \in 1..Len(in.chunks) |-> ChunkBytes(in.chunks[i])])
    \o TailBytes(in.tail)

ChunkRuns == SeqsUpTo(ChunkPool, MaxChunks)

Inputs ==
    {[magic |-> WASM_MAGIC, chunks |-> cs, tail |-> t] :
        cs \in ChunkRuns, t \in Tails}
    \cup {[magic |-> ELF_MAGIC, chunks |-> <<>>, tail |-> "none"]}

\* The segment tables address_offsets is asked about.
SegmentTables ==
    { <<>>,
      << [p_type |-> "PT_LOAD", p_vaddr |-> 16, p_filesz |-> 8, p_offset |-> 100],
         [p_type |-> "PT_NOTE", p_vaddr |-> 16, p_filesz |-> 8, p_offset |-> 200],
         [p_type |-> "PT_LOAD", p_vaddr |-> 20, p_filesz |-> 8, p_offset |-> 300] >> }

Starts == {22, 40}
Sizes == {1, 4}

NoFrame == [compressed |-> FALSE, section_names |-> <<>>, i |-> 0,
            debug_sections |-> <<>>, lookups |-> <<>>,
            decompressed |-> <<>>, failed |-> <<>>]

NoCall == [called |-> FALSE, segs |-> <<>>, start |-> 0, size |-> 0,
           err |-> "", ret |-> <<>>]

FileIdle ==
    /\ isPy3 = FALSE
    /\ input = [magic |-> <<>>, chunks |-> <<>>, tail |-> "none"]
    /\ stream = <<>>
    /\ pos = 0
    /\ pc = "idle"
    /\ err = ""
    /\ self = <<>>
    /\ walked = <<>>
    /\ uidx = 0
    /\ result = None
    /\ dw = NoFrame
    /\ addr = NoCall

Init ==
    /\ isPy3 \in BOOLEAN
    /\ input \in Inputs
    /\ stream = FileBytes(input)
    /\ pos = 0
    /\ pc = "new"
    /\ err = ""
    /\ self = <<>>
    /\ walked = <<>>
    /\ uidx = 0
    /\ result = None
    /\ dw = NoFrame
    /\ addr = NoCall
    /\ leb = LEBIdle
    /\ zs = ZlibIdle

Raise(kind) == pc' = "failed" /\ err' = kind

\* __init__ up to the loop of _read_sections: _identify_file checks the
\* magic and keeps the version; _read_sections starts with an empty
\* _section_name_map.
Construct ==
    /\ pc = "new"
    /\ IF StreamRead(stream, 0, 4) # WASM_MAGIC
       THEN /\ Raise("ELFError")
            /\ pos' = StreamTell(stream, 0, 4)
            /\ UNCHANGED self
       ELSE /\ pc' = "walk"
            /\ pos' = StreamTell(stream, 4, 4)
            /\ self' = ("version" :> StreamRead(stream, 4, 4))
                       @@ ("_section_name_map" :> <<>>)
            /\ UNCHANGED err
    /\ UNCHANGED <<isPy3, input, stream, walked, uidx, result, dw, addr, leb, zs>>

\* One pass of the walk, while stream.tell() < total: the kind, the size,
\* then stream.read(size), appended to the list of its kind.
ReadChunk ==
    /\ pc = "walk"
    /\ pos < Len(stream)
    /\ LET code == read_ULEB128(stream, pos)
           size == read_ULEB128(stream, code.pos)
       IN  IF code.pc = "raised"
           THEN Raise("TypeError") /\ pos' = code.pos /\ UNCHANGED <<self, walked>>
           ELSE IF size.pc = "raised"
           THEN Raise("TypeError") /\ pos' = size.pos /\ UNCHANGED <<self, walked>>
           ELSE LET payload == StreamRead(stream, size.pos, size.ret)
                IN  /\ self' = [self EXCEPT !["_section_name_map"] =
                                    AppendPayload(@, code.ret, payload)]
                    /\ walked' = Append(walked, [code |-> code.ret,
                                                 size |-> size.ret,
                                                 payload |-> payload])
                    /\ pos' = StreamTell(stream, size.pos, size.ret)
                    /\ UNCHANGED <<pc, err>>
    /\ UNCHANGED <<isPy3, input, stream, uidx, result, dw, addr, leb, zs>>

\* The walk is over: _custom_section_name_map starts empty, and the list
\* of user sections is taken from _section_name_map (KeyError without it).
BeginIndex ==
    /\ pc = "walk"
    /\ ~(pos < Len(stream))
    /\ self' = ("_custom_section_name_map" :> <<>>) @@ self
    /\ IF WasmSection_User \in DOMAIN self["_section_name_map"]
       THEN pc' = "index" /\ uidx' = 1 /\ UNCHANGED err
       ELSE Raise("KeyError") /\ UNCHANGED uidx
    /\ UNCHANGED <<isPy3, input, stream, pos, walked, result, dw, addr, leb, zs>>

\* One pass of the loop over the user sections; after the last one the
\* constructor returns.
IndexCustom ==
    /\ pc = "index"
    /\ LET user_sections == self["_section_name_map"][WasmSection_User]
           parsed == ParseCustom(isPy3, user_sections[uidx])
       IN  IF parsed.pc = "raised"
           THEN Raise("TypeError") /\ UNCHANGED <<self, uidx>>
           ELSE /\ self' = [self EXCEPT !["_custom_section_name_map"] =
                                RegisterCustom(@, parsed.name, parsed.section)]
                /\ uidx' = uidx + 1
                /\ pc' = IF uidx = Len(user_sections) THEN "ready" ELSE "index"
                /\ UNCHANGED err
    /\ UNCHANGED <<isPy3, input, stream, pos, walked, result, dw, addr, leb, zs>>

CallHasDwarfInfo ==
    /\ pc = "ready"
    /\ result' = has_dwarf_info(self["_custom_section_name_map"])
    /\ pc' = "has_done"
    /\ UNCHANGED <<isPy3, input, stream, pos, err, self, walked, uidx, dw, addr, leb, zs>>

\* get_dwarf_info up to its loop: the names are resolved.
CallGetDwarfInfo ==
    /\ pc = "ready"
    /\ LET compressed ==
               Truthy(get_section_by_name(self["_custom_section_name_map"],
                                          zdebug_info))
       IN  dw' = [NoFrame EXCEPT !.compressed = compressed,
                                 !.section_names = ResolveSectionNames(compressed),
                                 !.i = 1]
    /\ pc' = "dwarf"
    /\ UNCHANGED <<isPy3, input, stream, pos, err, self, walked, uidx, result, addr, leb, zs>>

\* One pass of the loop over section_names.  lookups, decompressed and
\* failed record the names looked up, handed to the decompressor, and on
\* which the decompressor raised.
LookupSection ==
    /\ pc = "dwarf"
    /\ dw.i <= Len(dw.section_names)
    /\ LET secname == dw.section_names[dw.i]
           section == get_section_by_name(self["_custom_section_name_map"], secname)
           looked  == [dw EXCEPT !.lookups = Append(@, secname), !.i = @ + 1]
       IN  IF section = None
           THEN /\ dw' = [looked EXCEPT !.debug_sections = (secname :> None) @@ @]
                /\ UNCHANGED <<pc, err>>
           ELSE IF ~NeedsDecompression(dw.compressed, secname)
           THEN /\ dw' = [looked EXCEPT !.debug_sections =
                              (secname :> _read_dwarf_section(section)) @@ @]
                /\ UNCHANGED <<pc, err>>
           ELSE LET r == _decompress_dwarf_section(_read_dwarf_section(section))
                IN  IF r.err # ""
                    THEN /\ dw' = [looked EXCEPT !.decompressed = Append(@, secname),
                                                 !.failed = Append(@, secname)]
                         /\ pc' = "dwarf_raised"
                         /\ err' = r.err
                    ELSE /\ dw' = [looked EXCEPT
                                     !.decompressed = Append(@, secname),
                                     !.debug_sections = (secname :> r.ret) @@ @]
                         /\ UNCHANGED <<pc, err>>
    /\ UNCHANGED <<isPy3, input, stream, pos, self, walked, uidx, result, addr, leb, zs>>

\* The loop is over: the DWARFInfo is built and returned.
ReturnDwarfInfo ==
    /\ pc = "dwarf"
    /\ dw.i > Len(dw.section_names)
    /\ result' = DWARFInfo(dw.debug_sections, dw.section_names)
    /\ pc' = "dwarf_done"
    /\ UNCHANGED <<isPy3, input, stream, pos, err, self, walked, uidx, dw, addr, leb, zs>>

\* list(address_offsets(start, size)).
CallAddressOffsets ==
    /\ pc = "ready"
    /\ \E segs \in SegmentTables, start \in Starts, size \in Sizes :
          LET r == address_offsets(self, segs, start, size)
          IN  addr' = [called |-> TRUE, segs |-> segs, start |-> start,
                       size |-> size, err |-> r.err, ret |-> r.ret]
    /\ pc' = "addr_done"
    /\ UNCHANGED <<isPy3, input, stream, pos, err, self, walked, uidx, result, dw, leb, zs>>

Next ==
    \/ Construct
    \/ ReadChunk
    \/ BeginIndex
    \/ IndexCustom
    \/ CallHasDwarfInfo
    \/ CallGetDwarfInfo
    \/ LookupSection
    \/ ReturnDwarfInfo
    \/ CallAddressOffsets

Spec == Init /\ [][Next]_vars

\* ------------------------------------------------------ claims: Spec --
\* The constructor has returned.
Constructed ==
    pc \in {"ready", "has_done", "dwarf", "dwarf_done", "dwarf_raised",
            "addr_done"}

\* The custom-section map, once assigned.
CustomMap ==
    IF "_custom_section_name_map" \in DOMAIN self
    THEN self["_custom_section_name_map"] ELSE <<>>

Range(f) == {f[x] : x \in DOMAIN f}

\* The custom sections a file holds, in file order, as [name, data]: those
\* of its complete chunks, then the one of its tail (the shortened
\* '.eh_frame', or the chunk whose name is cut to 'ab').
InputCustoms(in) ==
    SelectSeq([i \in 1..Len(in.chunks) |->
                  [name |-> in.chunks[i].name, data |-> in.chunks[i].data,
                   code |-> in.chunks[i].code]],
              LAMBDA c : c.code = WasmSection_User)
    \o (CASE in.tail = "short_custom" ->
                 <<[name |-> eh_frame, data |-> <<5, 5>>,
                    code |-> WasmSection_User]>>
          [] in.tail = "long_name" ->
                 <<[name |-> <<97, 98>>, data |-> <<>>,
                    code |-> WasmSection_User]>>
          [] OTHER -> <<>>)

\* The data of the last custom section of cs named name.
LastData(cs, name) ==
    LET last == CHOOSE j \in 1..Len(cs) :
                    /\ cs[j].name = name
                    /\ \A k \in (j + 1)..Len(cs) : cs[k].name # name
    IN  cs[last].data

\* C1: has_dwarf_info() is true if and only if '.debug_info',
\* '.zdebug_info' or '.eh_frame' is a key of the custom-section map, and
\* false for every other content of the map.
C1_HasDwarfInfoIffKey ==
    pc = "has_done" =>
        (Truthy(result) <=>
            \E n \in {debug_info, zdebug_info, eh_frame} : n \in DOMAIN CustomMap)

\* has_dwarf_info was true on a map holding '.eh_frame' and neither
\* '.debug_info' nor '.zdebug_info'.
C1_Witness ==
    /\ pc = "has_done"
    /\ Truthy(result)
    /\ eh_frame \in DOMAIN CustomMap
    /\ debug_info \notin DOMAIN CustomMap
    /\ zdebug_info \notin DOMAIN CustomMap

\* '.z' + name without its leading dot.
CompressedVariant(name) == <<46, 122>> \o Tail(name)

Slots(info) ==
    <<info.debug_info_sec, info.debug_aranges_sec, info.debug_abbrev_sec,
      info.debug_str_sec, info.debug_line_sec, info.debug_frame_sec,
      info.debug_loc_sec, info.debug_ranges_sec, info.debug_pubtypes_sec,
      info.debug_pubnames_sec, info.eh_frame_sec>>

\* A module of the magic, the version and complete custom chunks, none
\* under a compressed name.
CanonicalOnly(in) ==
    /\ in.magic = WASM_MAGIC
    /\ in.tail = "none"
    /\ \A i \in 1..Len(in.chunks) :
          /\ in.chunks[i].code = WasmSection_User
          /\ ~StartsWith(in.chunks[i].name, dot_z)

\* C4: for a module of custom sections under canonical names only,
\* get_dwarf_info(relocate_dwarf_sections=False) returns a bundle in which
\* every slot whose canonical name is a custom section of the file holds
\* that section's payload, with size its length, and every other slot is
\* None.
C4_BundleHoldsPayloads ==
    (pc = "dwarf_done" /\ CanonicalOnly(input)) =>
        LET cs    == InputCustoms(input)
            names == section_names_canonical \o <<eh_frame>>
        IN  \A i \in 1..Len(names) :
               IF \E j \in 1..Len(cs) : cs[j].name = names[i]
               THEN /\ Slots(result)[i] # None
                    /\ Slots(result)[i].stream = LastData(cs, names[i])
                    /\ Slots(result)[i].size = Len(LastData(cs, names[i]))
               ELSE Slots(result)[i] = None

ExpectedOffsets(segs, start, size) ==
    LET holds(seg) == /\ seg.p_type = "PT_LOAD"
                      /\ seg.p_vaddr <= start
                      /\ start + size <= seg.p_vaddr + seg.p_filesz
        hits == SelectSeq(segs, holds)
    IN  [i \in 1..Len(hits) |-> start - hits[i].p_vaddr + hits[i].p_offset]

\* C7: address_offsets(start, size) yields, in table order, exactly one
\* offset for each PT_LOAD segment that holds the range, nothing when no
\* PT_LOAD segment holds it, and nothing from a segment of another type.
C7_AddressOffsets ==
    addr.called =>
        /\ addr.err = ""
        /\ addr.ret = ExpectedOffsets(addr.segs, addr.start, addr.size)

\* C8: the section walk never stores a shortened payload: every payload it
\* has stored has the length its chunk declared (a chunk declaring more
\* bytes than the stream holds makes the walk fail instead).
C8_NoShortenedPayload ==
    \A i \in 1..Len(walked) : Len(walked[i].payload) = walked[i].size

\* C9: a decompression failure is fatal for its section alone: a call of
\* get_dwarf_info in which the decompressor raised still returns, and the
\* bundle it returns holds the file's '.eh_frame'.
C9_FailureIsLocal ==
    (dw.failed # <<>> /\ pc \in {"dwarf_done", "dwarf_raised"}) =>
        /\ pc = "dwarf_done"
        /\ eh_frame \in DOMAIN CustomMap =>
               /\ result.eh_frame_sec # None
               /\ result.eh_frame_sec.stream = CustomMap[eh_frame].data

\* A module with a valid magic and version followed by complete chunks.
WellFormed(in) == in.magic = WASM_MAGIC /\ in.tail = "none"

\* C10: the construction of a well-formed module succeeds, also without
\* any custom chunk; afterwards the keys of the custom-section map are the
\* names of the custom chunks (as text), every entry's sh_size is the
\* length of its data, and no chunk of another kind is found by name.
C10_ConstructionSucceeds ==
    (WellFormed(input) /\ pc \notin {"new", "walk", "index"}) =>
        /\ pc # "failed"
        /\ DOMAIN CustomMap =
               {PyStr(isPy3, InputCustoms(input)[i].name) :
                    i \in 1..Len(InputCustoms(input))}
        /\ \A k \in DOMAIN CustomMap :
               CustomMap[k].header.sh_size = Len(CustomMap[k].data)

\* ------------------------------------------------------------ SpecLEB --
\* Values at which the encoding grows by a byte, up to the largest integer
\* TLC represents (2^31 - 1).
LEBBoundaryValues ==
    {16383, 16384, 2097151, 2097152, 268435455, 268435456, 2147483647}

LEBValues == (0..MaxSmallN) \cup LEBBoundaryValues

\* What follows the encoding in the stream.
LEBTrailers == {<<>>, <<5>>, <<200, 1>>}

\* An encoding cut before its last byte: every byte left has its high bit set.
Truncated(enc) == SubSeq(enc, 1, Len(enc) - 1)

LEBStart == [pc |-> "run", ret |-> 0, shifts |-> 0, pos |-> 0]

InitLEB ==
    /\ FileIdle
    /\ zs = ZlibIdle
    /\ \E n \in LEBValues :
       \/ \E t \in LEBTrailers :
            leb = [kind |-> "valid", n |-> n,
                   stream |-> ULEB128_encode(n) \o t, st |-> LEBStart]
       \/ leb = [kind |-> "truncated", n |-> n,
                 stream |-> Truncated(ULEB128_encode(n)), st |-> LEBStart]

LEBStep ==
    /\ leb.st.pc = "run"
    /\ leb' = [leb EXCEPT !.st = read_ULEB128_iter(leb.stream, leb.st)]
    /\ UNCHANGED <<fileVars, zs>>

NextLEB == LEBStep

SpecLEB == InitLEB /\ [][NextLEB]_vars

\* C6: read_ULEB128 inverts the ULEB128 encoding: run on the encoding of n
\* (whatever follows it in the stream) it returns n and has consumed exactly
\* the bytes of the encoding; run on a truncated sequence (every byte has
\* its high bit set, then the stream ends) it never returns a value, and
\* once out of bytes it has raised.
C6_ULEB128RoundTrip ==
    /\ (leb.kind = "valid" /\ leb.st.pc = "returned") =>
           /\ leb.st.ret = leb.n
           /\ leb.st.pos = Len(ULEB128_encode(leb.n))
    /\ leb.kind = "valid" => leb.st.pc # "raised"
    /\ leb.kind = "truncated" =>
           /\ leb.st.pc # "returned"
           /\ leb.st.pos <= Len(leb.stream)
           /\ (leb.st.pc = "raised" => leb.st.pos = Len(leb.stream))

\* A three-byte value was decoded with bytes left in the stream.
C6_Witness ==
    /\ leb.kind = "valid"
    /\ leb.st.pc = "returned"
    /\ leb.n >= 16384
    /\ leb.st.pos < Len(leb.stream)

\* ----------------------------------------------------------- SpecZlib --
PayloadBytes == {0, 65, 255}

Payloads == SeqsUpTo(PayloadBytes, MaxPayloadLen)

\* How the stream of the descriptor is built from the payload:
\*   wellformed  tag, declared size, deflate(payload)
\*   trailing    the same, followed by bytes that are not part of it
\*   truncated   the same, cut two bytes into the checksum
\*   cutdata     the same, cut before the last byte of the stored data
\*   badcheck    the same, with a wrong last check byte
\*   badtag      another tag
\*   short       the tag and the size alone: 12 bytes
ZlibVariants ==
    {"wellformed", "trailing", "truncated", "cutdata", "badcheck", "badtag",
     "short"}

ZlibStream(variant, payload, declared) ==
    LET good == Envelope(ZLIB_TAG, declared, Deflate(payload))
    IN  CASE variant = "wellformed" -> good
          [] variant = "trailing"   -> good \o <<9, 9>>
          [] variant = "truncated"  -> SubSeq(good, 1, Len(good) - 2)
          [] variant = "cutdata"    -> SubSeq(good, 1, Len(good) - 5)
          [] variant = "badcheck"   ->
                 [good EXCEPT ![Len(good)] = (good[Len(good)] + 1) % 256]
          [] variant = "badtag"     ->
                 Envelope(<<90, 76, 73, 88>>, declared, Deflate(payload))
          [] variant = "short"      -> SubSeq(good, 1, 12)

\* The declared sizes tried for a payload: its length, one less, one more.
DeclaredSizes(payload) ==
    {d \in {Len(payload) - 1, Len(payload), Len(payload) + 1} : d >= 0}

InitZlib ==
    /\ FileIdle
    /\ leb = LEBIdle
    /\ \E variant \in ZlibVariants, payload \in Payloads :
         \E declared \in DeclaredSizes(payload) :
            LET bytes == ZlibStream(variant, payload, declared)
            IN  zs = [pc |-> "call", variant |-> variant,
                      payload |-> payload, declared |-> declared,
                      section |-> DebugSectionDescriptor(
                                      bytes, zdebug_info, 0, Len(bytes), 0),
                      err |-> "", ret |-> None]

Decompress ==
    /\ zs.pc = "call"
    /\ LET r == _decompress_dwarf_section(zs.section)
       IN  zs' = [zs EXCEPT !.pc = "done", !.err = r.err, !.ret = r.ret]
    /\ UNCHANGED <<fileVars, leb>>

NextZlib == Decompress

SpecZlib == InitZlib /\ [][NextZlib]_vars

\* C3: applied to a descriptor whose stream is 'ZLIB', the declared size
\* as 8 big-endian bytes and deflate(payload), _decompress_dwarf_section
\* returns a descriptor with stream = payload, size = len(payload) and the
\* other fields unchanged when the declared size is len(payload), and it
\* raises, returning no descriptor, when the declared size is any other.
C3_DecompressRoundTrip ==
    (zs.pc = "done" /\ zs.variant = "wellformed") =>
        IF zs.declared = Len(zs.payload)
        THEN /\ zs.err = ""
             /\ zs.ret = DebugSectionDescriptor(
                             zs.payload, zs.section.name,
                             zs.section.global_offset, Len(zs.payload),
                             zs.section.address)
        ELSE /\ zs.err = "AssertionError"
             /\ zs.ret = None

\* A payload of two or more bytes came back from its envelope.
C3_Witness ==
    /\ zs.pc = "done"
    /\ zs.variant = "wellformed"
    /\ Len(zs.payload) >= 2
    /\ zs.err = ""
    /\ zs.ret # None
    /\ zs.ret.stream = zs.payload

====
